---------------------------- MODULE Spec2Model ----------------------------
(***************************************************************************)
(* VaultMind trading calculator: src/src/components/TradingCalculator.tsx  *)
(*                                                                         *)
(* The component keeps one piece of state, the positions list (useState),  *)
(* replaced by generatePositions on every accepted form submission; the    *)
(* table cells are rendered from it with formatNumber.                     *)
(*                                                                         *)
(* Numbers.  A JavaScript number is modelled as an exact extended          *)
(* rational <<n, d>> in lowest terms with d >= 0:                          *)
(*   d > 0           the finite value n / d                                *)
(*   <<1,0>> <<-1,0>> Infinity and -Infinity                               *)
(*   <<0,0>>         NaN                                                   *)
(* so that x / 0, 0 / 0, Infinity - Infinity and 0 * Infinity come out as  *)
(* JavaScript computes them.  Arithmetic is exact (real-valued): binary64  *)
(* rounding and the sign of zero are not modelled.                         *)
(***************************************************************************)
EXTENDS Integers, Sequences, FiniteSets, TLC

VARIABLES
    positions,    \* useState<Position[]>([]), line 48
    submitted,    \* history: <<>> or <<values>> of the latest onFinish(values) call
    fmtValue,     \* argument `value` of the formatNumber call under study
    fmtDecimals,  \* argument `decimals` of that call
    fmtText       \* its result as a sequence of characters, <<>> before the call

vars == <<positions, submitted, fmtValue, fmtDecimals, fmtText>>

-----------------------------------------------------------------------------
(* Bounds of the model *)

MaxAdditional == 2

-----------------------------------------------------------------------------
(* JavaScript numbers as exact extended rationals *)

Abs(n) == IF n < 0 THEN -n ELSE n

Sgn(n) == IF n < 0 THEN -1 ELSE IF n > 0 THEN 1 ELSE 0

RECURSIVE GCD(_, _)
GCD(a, b) == IF b = 0 THEN a ELSE GCD(b, a % b)

Norm(n, d) ==
    IF d = 0 THEN <<Sgn(n), 0>>
    ELSE LET g == GCD(Abs(n), Abs(d))
             s == IF d < 0 THEN -1 ELSE 1
         IN  <<(s * n) \div g, (s * d) \div g>>

Num(n) == <<n, 1>>

Zero == Num(0)

One == Num(1)

NaN == <<0, 0>>

Infinity == <<1, 0>>

IsNaN(a) == a = NaN

IsFinite(a) == a[2] > 0

Neg(a) == <<-a[1], a[2]>>

Add(a, b) ==
    IF a[2] = 0 /\ b[2] = 0 THEN (IF a = b THEN a ELSE NaN)
    ELSE IF a[2] = 0 THEN a
    ELSE IF b[2] = 0 THEN b
    ELSE LET g == GCD(a[2], b[2])
         IN  Norm(a[1] * (b[2] \div g) + b[1] * (a[2] \div g), (a[2] \div g) * b[2])

Sub(a, b) == Add(a, Neg(b))

Mul(a, b) ==
    IF a[2] = 0 \/ b[2] = 0 THEN <<Sgn(a[1]) * Sgn(b[1]), 0>>
    ELSE LET g1 == GCD(Abs(a[1]), b[2])
             g2 == GCD(Abs(b[1]), a[2])
         IN  Norm((a[1] \div g1) * (b[1] \div g2), (a[2] \div g2) * (b[2] \div g1))

Inv(a) ==
    IF a[1] = 0 THEN (IF a[2] = 0 THEN NaN ELSE Infinity)
    ELSE IF a[1] < 0 THEN <<-a[2], -a[1]>>
    ELSE <<a[2], a[1]>>

Div(a, b) == Mul(a, Inv(b))

\* a < b as JavaScript compares numbers: false when either side is NaN
Lt(a, b) ==
    IF IsNaN(a) \/ IsNaN(b) THEN FALSE
    ELSE IF a[2] = 0 /\ b[2] = 0 THEN a[1] < b[1]
    ELSE IF a[2] = 0 THEN a[1] < 0
    ELSE IF b[2] = 0 THEN b[1] > 0
    ELSE a[1] * b[2] < b[1] * a[2]

\* a === b on numbers: NaN equals nothing
Eq(a, b) == ~IsNaN(a) /\ a = b

Le(a, b) == Lt(a, b) \/ Eq(a, b)

-----------------------------------------------------------------------------
(* generatePositions, lines 58-100 *)

\* a form field left empty
Empty == <<>>

priceStep == <<1, 20>>

entryCount(values) == Add(values.additionalPositions, One)

\* a slip: the ratio left out of the entry amount
entryAmountNoRatio(values) == values.maxLoss

entryAmount(values) == Mul(values.maxLoss, values.additionalPositionAmount)

\* a slip: the short ladder stepping down like the long one
NextPriceSameSign(direction, price) == Mul(price, Sub(One, <<1, 20>>))

NextPrice(direction, price) ==
    IF direction = "long"
    THEN Mul(price, Sub(One, priceStep))
    ELSE Mul(price, Add(One, priceStep))

EntryPrice(i, direction, price) ==
    IF i > 0 THEN NextPrice(direction, price) ELSE price

EntryQty(amount, price) == Div(amount, price)

\* a slip: the quotient taken upside down
AvgPriceInverted(totalAmount, totalQty) == Div(totalQty, totalAmount)

AvgPrice(totalAmount, totalQty) == Div(totalAmount, totalQty)

\* a slip: the two directions' formulas swapped
CumulativeLossSwapped(direction, avgPrice, price, totalQty) ==
    IF direction = "long"
    THEN Mul(Sub(price, avgPrice), totalQty)
    ELSE Mul(Sub(avgPrice, price), totalQty)

CumulativeLoss(direction, avgPrice, price, totalQty) ==
    IF direction = "long"
    THEN Mul(Sub(avgPrice, price), totalQty)
    ELSE Mul(Sub(price, avgPrice), totalQty)

\* one pass of the loop body for index i, from the running totals st
LoopBody(values, i, st) ==
    LET price       == EntryPrice(i, values.direction, st.price)
        qty         == EntryQty(entryAmount(values), price)
        totalAmount == Add(st.totalAmount, entryAmount(values))
        totalQty    == Add(st.totalQty, qty)
        avgPrice    == AvgPrice(totalAmount, totalQty)
        loss        == CumulativeLoss(values.direction, avgPrice, price, totalQty)
    IN  [price       |-> price,
         totalAmount |-> totalAmount,
         totalQty    |-> totalQty,
         positions   |-> Append(st.positions,
                           [key            |-> i + 1,
                            price          |-> price,
                            amount         |-> qty,
                            entryAmount    |-> entryAmount(values),
                            totalAmount    |-> totalAmount,
                            totalQty       |-> totalQty,
                            avgPrice       |-> avgPrice,
                            cumulativeLoss |-> loss])]

\* a slip: i <= entryCount
LoopGuardInclusive(values, i) ==
    Le(<<i, 1>>, Add(values.additionalPositions, One))

LoopGuard(values, i) == Lt(Num(i), entryCount(values))

RECURSIVE Loop(_, _, _)
Loop(values, i, st) ==
    IF LoopGuard(values, i)
    THEN Loop(values, i + 1, LoopBody(values, i, st))
    ELSE st.positions

\* the list handed to setPositions
generatePositions(values) ==
    Loop(values, 0,
         [price       |-> values.initialPrice,
          totalAmount |-> Zero,
          totalQty    |-> Zero,
          positions   |-> <<>>])

-----------------------------------------------------------------------------
(* The form, lines 162-227 *)

initialValues ==
    [maxLoss                  |-> Num(100),
     additionalPositionAmount |-> <<1, 2>>,
     additionalPositions      |-> Num(3),
     direction                |-> "long",
     initialPrice             |-> Num(1),
     leverage                 |-> Num(3)]

MaxLossChoices == {Zero, Num(10), Num(100)}

RatioChoices == {Zero, <<1, 2>>, One}

AdditionalChoices == {Num(n) : n \in (-1)..MaxAdditional}

PriceChoices == {Zero, One, <<3, 2>>}

LeverageChoices == {Zero, Num(3)}

\* what the user can have in the form when pressing Calculate
FormValues ==
    [maxLoss                  : MaxLossChoices \cup {Empty},
     additionalPositionAmount : RatioChoices \cup {Empty},
     additionalPositions      : AdditionalChoices \cup {Empty},
     direction                : {"long", "short"},
     initialPrice             : PriceChoices \cup {Empty},
     leverage                 : LeverageChoices \cup {Empty}]

\* rules={[{ required: true }]} on every Form.Item
RequiredOk(values) ==
    /\ values.maxLoss # Empty
    /\ values.additionalPositionAmount # Empty
    /\ values.additionalPositions # Empty
    /\ values.initialPrice # Empty
    /\ values.leverage # Empty

\* a slip: the new entries appended to the stored list
onFinishAppend(values) ==
    /\ positions' = positions \o generatePositions(values)
    /\ submitted' = <<values>>
    /\ UNCHANGED <<fmtValue, fmtDecimals, fmtText>>

onFinish(values) ==
    /\ positions' = generatePositions(values)
    /\ submitted' = <<values>>
    /\ UNCHANGED <<fmtValue, fmtDecimals, fmtText>>

\* the Calculate button: onFinish runs only when every rule passes
Submit(values) ==
    \/ /\ RequiredOk(values)
       /\ onFinish(values)
    \/ /\ ~RequiredOk(values)
       /\ UNCHANGED vars

-----------------------------------------------------------------------------
(* formatNumber, lines 51-55, and the table columns, lines 106-154 *)

\* JavaScript values handed to formatNumber (`value: any`); num is what
\* Number(value) yields for a string, and the number itself for a number
JsNumber(a) == [kind |-> "number", num |-> a]

JsUndefined == [kind |-> "undefined", num |-> NaN]

JsNull == [kind |-> "null", num |-> Zero]

JsString(a) == [kind |-> "string", num |-> a]

\* Number(value)
ToNumber(value) ==
    IF value.kind = "undefined" THEN NaN
    ELSE IF value.kind = "null" THEN Zero
    ELSE value.num

DigitChar(d) == <<"0", "1", "2", "3", "4", "5", "6", "7", "8", "9">>[d + 1]

RECURSIVE IntDigits(_)
IntDigits(n) ==
    IF n < 10 THEN <<DigitChar(n)>>
    ELSE IntDigits(n \div 10) \o <<DigitChar(n % 10)>>

RECURSIVE FracDigits(_, _)
FracDigits(n, k) ==
    IF k = 0 THEN <<>>
    ELSE FracDigits(n \div 10, k - 1) \o <<DigitChar(n % 10)>>

RECURSIVE Pow10(_)
Pow10(k) == IF k = 0 THEN 1 ELSE 10 * Pow10(k - 1)

\* the integer n nearest to (q + rem / d) * 10^k, the larger one on a tie
RECURSIVE Scaled(_, _, _, _)
Scaled(q, rem, d, k) ==
    IF k = 0 THEN (IF 2 * rem >= d THEN q + 1 ELSE q)
    ELSE Scaled(q * 10 + (rem * 10) \div d, (rem * 10) % d, d, k - 1)

\* Number.prototype.toFixed(decimals), 0 <= decimals <= 100, |num| < 10^21
toFixed(num, decimals) ==
    IF IsNaN(num) THEN <<"N", "a", "N">>
    ELSE IF ~IsFinite(num)
    THEN (IF num[1] < 0 THEN <<"-">> ELSE <<>>)
         \o <<"I", "n", "f", "i", "n", "i", "t", "y">>
    ELSE LET n == Scaled(Abs(num[1]) \div num[2], Abs(num[1]) % num[2],
                         num[2], decimals)
         IN  (IF num[1] < 0 THEN <<"-">> ELSE <<>>)
             \o IntDigits(n \div Pow10(decimals))
             \o (IF decimals > 0
                 THEN <<".">> \o FracDigits(n % Pow10(decimals), decimals)
                 ELSE <<>>)

formatNumber(value, decimals) ==
    LET num == ToNumber(value)
    IN  IF IsNaN(num) THEN <<"0", ".", "0", "0", "0", "0">>
        ELSE toFixed(num, decimals)

\* the decimals each column's render passes to formatNumber
ColumnDecimals ==
    [price          |-> 5,
     entryAmount    |-> 2,
     amount         |-> 4,
     totalAmount    |-> 2,
     totalQty       |-> 4,
     avgPrice       |-> 5,
     cumulativeLoss |-> 2]

\* the values a cell of the table can hold: the fields of the plan computed
\* from the form's initial values, and of a plan computed from a zero price
CellNumbers ==
    LET rows == generatePositions(initialValues)
                \o generatePositions([initialValues EXCEPT !.initialPrice = Zero])
    IN  UNION {{rows[i][c] : c \in DOMAIN ColumnDecimals} : i \in DOMAIN rows}

FmtValues ==
    {JsNumber(a) : a \in CellNumbers \cup {Neg(<<1, 1000>>), <<1, 200>>}}
    \cup {JsUndefined, JsNull, JsString(NaN), JsString(<<3, 2>>)}

FmtDecimals == {ColumnDecimals[c] : c \in DOMAIN ColumnDecimals}

\* a render of one cell: formatNumber applied to its value
Format ==
    /\ fmtText = <<>>
    /\ fmtText' = formatNumber(fmtValue, fmtDecimals)
    /\ UNCHANGED <<positions, submitted, fmtValue, fmtDecimals>>

-----------------------------------------------------------------------------
(* Specifications *)

Init ==
    /\ positions = <<>>
    /\ submitted = <<>>
    /\ fmtValue = JsUndefined
    /\ fmtDecimals = 4
    /\ fmtText = <<>>

\* pressing Calculate after editing the fields, or on the untouched form
SubmitEdited == \E values \in FormValues : Submit(values)

SubmitDefaults == Submit(initialValues)

Next ==
    \/ SubmitEdited
    \/ SubmitDefaults

Spec == Init /\ [][Next]_vars

\* formatNumber as a pure function of its two arguments
InitFormat ==
    /\ positions = <<>>
    /\ submitted = <<>>
    /\ fmtValue \in FmtValues
    /\ fmtDecimals \in FmtDecimals
    /\ fmtText = <<>>

NextFormat == Format

SpecFormat == InitFormat /\ [][NextFormat]_vars

-----------------------------------------------------------------------------
(* Vocabulary of the claims *)

\* the input invariants of CalculatorInput: riskBudget, initialPrice, leverage
\* and entryRatio positive, additionalEntries a non-negative integer
ValidInput(v) ==
    /\ Lt(Zero, v.maxLoss)
    /\ Lt(Zero, v.additionalPositionAmount)
    /\ Le(Zero, v.additionalPositions)
    /\ v.additionalPositions[2] = 1
    /\ Lt(Zero, v.initialPrice)
    /\ Lt(Zero, v.leverage)

\* a plan is on display for a valid input
ValidPlan == submitted # <<>> /\ ValidInput(submitted[1])

Last == submitted[1]

RECURSIVE SumQty(_)
SumQty(k) == IF k = 0 THEN Zero ELSE Add(SumQty(k - 1), positions[k].amount)

RECURSIVE MinPrice(_)
MinPrice(k) ==
    IF k = 1 THEN positions[1].price
    ELSE LET m == MinPrice(k - 1)
         IN  IF Lt(positions[k].price, m) THEN positions[k].price ELSE m

RECURSIVE MaxPrice(_)
MaxPrice(k) ==
    IF k = 1 THEN positions[1].price
    ELSE LET m == MaxPrice(k - 1)
         IN  IF Lt(m, positions[k].price) THEN positions[k].price ELSE m

\* the liquidation price the specification defines
LiquidationPrice(v) ==
    IF v.direction = "long"
    THEN Mul(v.initialPrice, Sub(One, Div(One, v.leverage)))
    ELSE Mul(v.initialPrice, Add(One, Div(One, v.leverage)))

\* what the component holds after a computation: its only useState, line 48
ComponentState == [positions |-> positions]

\* "0" at `decimals` decimals
ZeroText(decimals) ==
    <<"0">> \o (IF decimals > 0 THEN <<".">> \o FracDigits(0, decimals) ELSE <<>>)

Digits == {DigitChar(d) : d \in 0..9}

\* an optional sign, digits, and exactly `decimals` digits after the point
IsFixedPoint(text, decimals) ==
    LET body == IF text # <<>> /\ text[1] = "-" THEN Tail(text) ELSE text
        n    == Len(body)
    IN  /\ n >= decimals + 2
        /\ body[n - decimals] = "."
        /\ \A i \in 1..n : i # n - decimals => body[i] \in Digits

-----------------------------------------------------------------------------
(* Claims *)

\* C1: a submission whose values violate an input invariant (leverage = 0,
\* additionalEntries = -1, initialPrice = 0, non-positive riskBudget or
\* entryRatio) is rejected before any computation: the stored result is left
\* as it was, no entry is produced.
C1_InvalidRejected ==
    [][(submitted' # submitted /\ ~ValidInput(submitted'[1]))
         => positions' = positions]_vars

\* C2: for every valid input the computation returns, with the entries, a
\* liquidationPrice equal to initialPrice * (1 - 1/leverage) for long and
\* initialPrice * (1 + 1/leverage) for short.
C2_LiquidationReturned ==
    ValidPlan =>
        /\ "liquidationPrice" \in DOMAIN ComponentState
        /\ Eq(ComponentState["liquidationPrice"], LiquidationPrice(Last))

\* C3: the first entry's price is initialPrice and each later price is the
\* previous entry's price times 19/20 for long (strictly smaller) and times
\* 21/20 for short (strictly greater): the ladder compounds.
C3_PriceLadder ==
    ValidPlan =>
        /\ Len(positions) >= 1
        /\ Eq(positions[1].price, Last.initialPrice)
        /\ \A k \in 2..Len(positions) :
              IF Last.direction = "long"
              THEN /\ Eq(positions[k].price, Mul(positions[k - 1].price, <<19, 20>>))
                   /\ Lt(positions[k].price, positions[k - 1].price)
              ELSE /\ Eq(positions[k].price, Mul(positions[k - 1].price, <<21, 20>>))
                   /\ Lt(positions[k - 1].price, positions[k].price)

C3_Witness ==
    /\ ValidPlan
    /\ Last.direction = "short"
    /\ Len(positions) >= 3
    /\ Eq(positions[3].price, Mul(Last.initialPrice, <<441, 400>>))

C7_LastLossIsMaxLoss ==
    (ValidPlan /\ Len(positions) > 0) =>
        Eq(positions[Len(positions)].cumulativeLoss, Last.maxLoss)

\* C8: for a non-numeric or undefined value formatNumber returns "0" at the
\* requested number of decimals, and for a numeric value the fixed-point text
\* with exactly the requested number of decimals.
C8_FormatAtPrecision ==
    fmtText # <<>> =>
        IF IsNaN(ToNumber(fmtValue))
        THEN fmtText = ZeroText(fmtDecimals)
        ELSE IsFixedPoint(fmtText, fmtDecimals)

=============================================================================
